---- MODULE Spec2Model ----
(***************************************************************************)
(* disposable-decorator: create(name, fn) and the guard wrapper            *)
(* disposableDecorator it returns, together with the example class the     *)
(* repository decorates (isDisposed, dispose, close, readFile) and the     *)
(* increment method of the specification's scenario.                       *)
(*                                                                         *)
(* A JavaScript value is a record [t, name, k]: t is its kind, name its    *)
(* string payload (a function's body, a string's text), k its numeric      *)
(* payload (a number, a boolean as 0/1, a wrapper's closure identity).     *)
(* A call is evaluated in one step by the operators Call, CallMember,      *)
(* disposableDecorator and the method bodies; they thread the object       *)
(* store and a log of the function bodies that ran.                        *)
(***************************************************************************)
EXTENDS Integers, Sequences, FiniteSets, TLC

VARIABLES closures, proto, objs, last

vars == <<closures, proto, objs, last>>

\* ---------------------------------------------------------------- bounds

MaxObjs == 2
MaxCreated == 2
MaxClosures == 3
MaxCounter == 2
MaxDepth == 12
MaxReceivers == 2
MaxGuards == 1

\* ---------------------------------------------------------------- values

Val(t, name, k) == [t |-> t, name |-> name, k |-> k]

Undefined == Val("undefined", "", 0)

Bool(b) == Val("boolean", "", IF b THEN 1 ELSE 0)

Num(n) == Val("number", "", n)

NaN == Val("number", "NaN", 0)

Str(s) == Val("string", s, 0)

Fn(body) == Val("fn", body, 0)

Wrapper(k) == Val("wrapper", "", k)

TypeOf(v) == IF v.t \in {"fn", "wrapper"} THEN "function" ELSE v.t

Truthy(v) ==
    CASE v.t = "undefined" -> FALSE
      [] v.t = "boolean" -> v.k = 1
      [] v.t = "number" -> v.name # "NaN" /\ v.k # 0
      [] v.t = "string" -> v.name # ""
      [] OTHER -> TRUE

\* ---------------------------------------------------------------- errors

TEMPLATE == "Object is disposed"

Err(kind, msg, arg) == [kind |-> kind, msg |-> msg, arg |-> arg]

NoErr == Err("", "", Undefined)

Disposed == Err("TypeError", TEMPLATE, Undefined)

NotAFunction(member) == Err("TypeError", "is not a function", Str("this." \o member))

ClassConstructor ==
    Err("TypeError", "Class constructor cannot be invoked without 'new'", Undefined)

StackOverflow == Err("RangeError", "Maximum call stack size exceeded", Undefined)

FileNotOpen(filename) == Err("Error", "File not open: ", filename)

\* ------------------------------------------------------- completion records

Return(v, st, tr) == [out |-> "return", val |-> v, err |-> NoErr, st |-> st, trace |-> tr]

Throw(e, st, tr) == [out |-> "throw", val |-> Undefined, err |-> e, st |-> st, trace |-> tr]

Ran(site, f, this, args, depth, r) ==
    [r EXCEPT !.trace = Append(@, [site |-> site, fn |-> f, this |-> this, args |-> args,
                                   depth |-> depth, out |-> r.out, val |-> r.val,
                                   err |-> r.err])]

NoTrace == <<>>

Arg(args, i) == IF i <= Len(args) THEN args[i] ELSE Undefined

\* ---------------------------------------------------------------- objects

ProtoNames == <<"constructor", "isDisposed", "dispose", "increment", "close">>

ProtoNameSet == {ProtoNames[i] : i \in 1..Len(ProtoNames)}

Blank(cls) ==
    [cls |-> cls, _disposed |-> Undefined, isConnected |-> Undefined,
     counter |-> Undefined, openFiles |-> {}]

constructor(o) ==
    [o EXCEPT !.isConnected = Bool(TRUE), !._disposed = Bool(FALSE),
              !.counter = Num(0), !.openFiles = {}]

Lookup(st, this, member) ==
    IF st[this].cls = "R" /\ member \in DOMAIN proto THEN proto[member] ELSE Undefined

Add(a, b) ==
    IF a.t = "number" /\ b.t = "number" /\ a.name # "NaN" /\ b.name # "NaN"
    THEN Num(a.k + b.k)
    ELSE NaN

\* ---------------------------------------------------------------- calls

RECURSIVE Call(_, _, _, _, _, _)
RECURSIVE CallMember(_, _, _, _, _, _)
RECURSIVE disposableDecorator(_, _, _, _, _, _)
RECURSIVE Apply(_, _, _, _, _, _)

isDisposed(this, st, tr) == Return(st[this]._disposed, st, tr)

dispose(this, st, tr) ==
    IF ~Truthy(st[this]._disposed)
    THEN Return(Undefined,
                [st EXCEPT ![this].isConnected = Bool(FALSE), ![this]._disposed = Bool(TRUE)],
                tr)
    ELSE Return(Undefined, st, tr)

close(this, st, tr, depth) ==
    LET r == CallMember(this, "dispose", <<>>, st, tr, depth)
    IN  IF r.out = "throw" THEN r ELSE Return(Undefined, r.st, r.trace)

increment(this, args, st, tr) ==
    LET sum == Add(st[this].counter, Arg(args, 1))
    IN  Return(sum, [st EXCEPT ![this].counter = sum], tr)

query(this, args, st, tr) == Return(Str("results"), st, tr)

readFile(this, args, st, tr) ==
    IF Arg(args, 1) \notin st[this].openFiles
    THEN Throw(FileNotOpen(Arg(args, 1)), st, tr)
    ELSE Return(Str("Content of "), st, tr)

\* function () { this.dispose(); this.close(); }
disposeThenClose(this, st, tr, depth) ==
    LET d == CallMember(this, "dispose", <<>>, st, tr, depth)
        c == CallMember(this, "close", <<>>, d.st, d.trace, depth)
    IN  IF d.out = "throw"
        THEN d
        ELSE IF c.out = "throw" THEN c ELSE Return(Undefined, c.st, c.trace)

Apply(body, this, args, st, tr, depth) ==
    CASE body = "constructor" -> Throw(ClassConstructor, st, tr)
      [] body = "isDisposed" -> isDisposed(this, st, tr)
      [] body = "dispose" -> dispose(this, st, tr)
      [] body = "close" -> close(this, st, tr, depth)
      [] body = "increment" -> increment(this, args, st, tr)
      [] body = "query" -> query(this, args, st, tr)
      [] body = "readFile" -> readFile(this, args, st, tr)
      [] body = "disposeThenClose" -> disposeThenClose(this, st, tr, depth)

Call(f, this, args, st, tr, depth) ==
    IF depth >= MaxDepth
    THEN Throw(StackOverflow, st, tr)
    ELSE IF f.t = "wrapper"
    THEN disposableDecorator(f.k, this, args, st, tr, depth + 1)
    ELSE Apply(f.name, this, args, st, tr, depth + 1)

CallMember(this, member, args, st, tr, depth) ==
    LET f == Lookup(st, this, member)
    IN  IF TypeOf(f) # "function"
        THEN Throw(NotAFunction(member), st, tr)
        ELSE Ran(member, f, this, args, depth, Call(f, this, args, st, tr, depth))

\* fn.apply(this) : the arguments are dropped
disposableDecorator_noargs(k, this, args, st, tr, depth) ==
    LET p == CallMember(this, "isDisposed", <<>>, st, tr, depth)
        fn == closures[k]
    IN  IF p.out = "throw"
        THEN p
        ELSE IF Truthy(p.val)
        THEN Throw(Disposed, p.st, p.trace)
        ELSE Ran("apply", fn, this, <<>>, depth, Call(fn, this, <<>>, p.st, p.trace, depth))

\* if (!this.isDisposed()) : the guard inverted
disposableDecorator_inverted(k, this, args, st, tr, depth) ==
    LET p == CallMember(this, "isDisposed", <<>>, st, tr, depth)
        fn == closures[k]
    IN  IF p.out = "throw"
        THEN p
        ELSE IF ~Truthy(p.val)
        THEN Throw(Disposed, p.st, p.trace)
        ELSE Ran("apply", fn, this, args, depth, Call(fn, this, args, p.st, p.trace, depth))

\* the candidate runs first and the disposal check follows it
disposableDecorator_checkAfter(k, this, args, st, tr, depth) ==
    LET fn == closures[k]
        r == Ran("apply", fn, this, args, depth, Call(fn, this, args, st, tr, depth))
        p == CallMember(this, "isDisposed", <<>>, r.st, r.trace, depth)
    IN  IF r.out = "throw"
        THEN r
        ELSE IF p.out = "throw"
        THEN p
        ELSE IF Truthy(p.val)
        THEN Throw(Disposed, p.st, p.trace)
        ELSE Return(r.val, p.st, p.trace)

\* try { return fn.apply(this, arguments) } catch (e) { throw new TypeError(TEMPLATE) }
disposableDecorator_rethrows(k, this, args, st, tr, depth) ==
    LET p == CallMember(this, "isDisposed", <<>>, st, tr, depth)
        fn == closures[k]
        r == Ran("apply", fn, this, args, depth, Call(fn, this, args, p.st, p.trace, depth))
    IN  IF p.out = "throw"
        THEN p
        ELSE IF Truthy(p.val)
        THEN Throw(Disposed, p.st, p.trace)
        ELSE IF r.out = "throw"
        THEN Throw(Disposed, r.st, r.trace)
        ELSE r

\* if (this.isDisposed && this.isDisposed()) : a missing predicate reads as not disposed
disposableDecorator_optional(k, this, args, st, tr, depth) ==
    LET has == TypeOf(Lookup(st, this, "isDisposed")) = "function"
        p == IF has
             THEN CallMember(this, "isDisposed", <<>>, st, tr, depth)
             ELSE Return(Undefined, st, tr)
        fn == closures[k]
    IN  IF p.out = "throw"
        THEN p
        ELSE IF Truthy(p.val)
        THEN Throw(Disposed, p.st, p.trace)
        ELSE Ran("apply", fn, this, args, depth, Call(fn, this, args, p.st, p.trace, depth))

\* if (this.isDisposed() === true) : only the boolean true blocks
disposableDecorator_strictTrue(k, this, args, st, tr, depth) ==
    LET p == CallMember(this, "isDisposed", <<>>, st, tr, depth)
        fn == closures[k]
    IN  IF p.out = "throw"
        THEN p
        ELSE IF p.val = Bool(TRUE)
        THEN Throw(Disposed, p.st, p.trace)
        ELSE Ran("apply", fn, this, args, depth, Call(fn, this, args, p.st, p.trace, depth))

\* a refusal is remembered: once a call was blocked, the next one is blocked too
disposableDecorator_latched(k, this, args, st, tr, depth) ==
    LET p == CallMember(this, "isDisposed", <<>>, st, tr, depth)
        fn == closures[k]
    IN  IF p.out = "throw"
        THEN p
        ELSE IF Truthy(p.val) \/ (last.op = "call" /\ last.err = Disposed)
        THEN Throw(Disposed, p.st, p.trace)
        ELSE Ran("apply", fn, this, args, depth, Call(fn, this, args, p.st, p.trace, depth))

\* the disposal state is read from one slot shared by every instance
disposableDecorator_sharedFlag(k, this, args, st, tr, depth) ==
    LET p == CallMember(this, "isDisposed", <<>>, st, tr, depth)
        fn == closures[k]
    IN  IF p.out = "throw"
        THEN p
        ELSE IF \E i \in 1..Len(p.st) : Truthy(p.st[i]._disposed)
        THEN Throw(Disposed, p.st, p.trace)
        ELSE Ran("apply", fn, this, args, depth, Call(fn, this, args, p.st, p.trace, depth))

\* the disposal check is made on entry and again when the candidate has returned
disposableDecorator_checkOnExit(k, this, args, st, tr, depth) ==
    LET p == CallMember(this, "isDisposed", <<>>, st, tr, depth)
        fn == closures[k]
        r == Ran("apply", fn, this, args, depth, Call(fn, this, args, p.st, p.trace, depth))
        q == CallMember(this, "isDisposed", <<>>, r.st, r.trace, depth)
    IN  IF p.out = "throw"
        THEN p
        ELSE IF Truthy(p.val)
        THEN Throw(Disposed, p.st, p.trace)
        ELSE IF r.out = "throw"
        THEN r
        ELSE IF q.out = "throw"
        THEN q
        ELSE IF Truthy(q.val)
        THEN Throw(Disposed, q.st, q.trace)
        ELSE Return(r.val, q.st, q.trace)

\* the guard left out: the wrapper only delegates
disposableDecorator_unguarded(k, this, args, st, tr, depth) ==
    LET fn == closures[k]
    IN  Ran("apply", fn, this, args, depth, Call(fn, this, args, st, tr, depth))

disposableDecorator(k, this, args, st, tr, depth) ==
    LET p == CallMember(this, "isDisposed", <<>>, st, tr, depth)
        fn == closures[k]
    IN  IF p.out = "throw"
        THEN p
        ELSE IF Truthy(p.val)
        THEN Throw(Disposed, p.st, p.trace)
        ELSE Ran("apply", fn, this, args, depth, Call(fn, this, args, p.st, p.trace, depth))

\* ---------------------------------------------------------------- create

Created(r, heap) ==
    [out |-> r.out, val |-> r.val, err |-> r.err, st |-> r.st, trace |-> r.trace,
     heap |-> heap]

\* the reserved names are not exempted
create_noReserved(name, fn, heap, st) ==
    IF TypeOf(fn) # "function"
    THEN Created(Return(fn, st, NoTrace), heap)
    ELSE Created(Return(Wrapper(Len(heap) + 1), st, NoTrace), Append(heap, fn))

\* a wrapper made earlier for the same function is handed out again
create_memo(name, fn, heap, st) ==
    IF name = "constructor" \/ name = "isDisposed"
    THEN Created(Return(fn, st, NoTrace), heap)
    ELSE IF TypeOf(fn) # "function"
    THEN Created(Return(fn, st, NoTrace), heap)
    ELSE IF \E k \in 1..Len(heap) : heap[k] = fn
    THEN Created(Return(Wrapper(CHOOSE k \in 1..Len(heap) : heap[k] = fn), st, NoTrace), heap)
    ELSE Created(Return(Wrapper(Len(heap) + 1), st, NoTrace), Append(heap, fn))

\* a candidate that is not a function is rejected
create_strict(name, fn, heap, st) ==
    IF name = "constructor" \/ name = "isDisposed"
    THEN Created(Return(fn, st, NoTrace), heap)
    ELSE IF TypeOf(fn) # "function"
    THEN Created(Throw(Err("TypeError", "fn is not a function", Undefined), st, NoTrace), heap)
    ELSE Created(Return(Wrapper(Len(heap) + 1), st, NoTrace), Append(heap, fn))

create(name, fn, heap, st) ==
    IF name = "constructor" \/ name = "isDisposed"
    THEN Created(Return(fn, st, NoTrace), heap)
    ELSE IF TypeOf(fn) # "function"
    THEN Created(Return(fn, st, NoTrace), heap)
    ELSE Created(Return(Wrapper(Len(heap) + 1), st, NoTrace), Append(heap, fn))

\* dispose is left as it is, so that it can be called again
RECURSIVE applyDisposableDecorator_skipDispose(_, _, _, _)
applyDisposableDecorator_skipDispose(names, p, heap, st) ==
    IF names = <<>>
    THEN [out |-> "return", err |-> NoErr, proto |-> p, heap |-> heap, st |-> st]
    ELSE LET name == Head(names)
             value == p[name]
             c == create(name, value, heap, st)
         IN  IF TypeOf(value) # "function" \/ name = "dispose"
             THEN applyDisposableDecorator_skipDispose(Tail(names), p, heap, st)
             ELSE IF c.out = "throw"
             THEN [out |-> "throw", err |-> c.err, proto |-> p, heap |-> c.heap, st |-> c.st]
             ELSE applyDisposableDecorator_skipDispose(Tail(names), [p EXCEPT ![name] = c.val],
                                                       c.heap, c.st)

RECURSIVE applyDisposableDecorator(_, _, _, _)
applyDisposableDecorator(names, p, heap, st) ==
    IF names = <<>>
    THEN [out |-> "return", err |-> NoErr, proto |-> p, heap |-> heap, st |-> st]
    ELSE LET name == Head(names)
             value == p[name]
             c == create(name, value, heap, st)
         IN  IF TypeOf(value) # "function"
             THEN applyDisposableDecorator(Tail(names), p, heap, st)
             ELSE IF c.out = "throw"
             THEN [out |-> "throw", err |-> c.err, proto |-> p, heap |-> c.heap, st |-> c.st]
             ELSE applyDisposableDecorator(Tail(names), [p EXCEPT ![name] = c.val],
                                           c.heap, c.st)

\* ---------------------------------------------------------------- inputs

Names == {"constructor", "isDisposed", "query", "label"}

NonCallables == {Str("label"), Undefined}

Functions == {Fn("query"), Fn("readFile")}

Candidates == Functions \cup NonCallables \cup {Wrapper(k) : k \in 1..Len(closures)}

ArgVals == {Num(1), Num(2)}

ArgLists == {<<>>, <<Num(1)>>, <<Num(1), Num(2)>>, <<Num(2), Num(1)>>}

Params(name) == IF name \in {"increment", "query", "readFile"} THEN 1 ELSE 0

ParamLists(name) == [1..Params(name) -> ArgVals]

MethodsToDecorate == {"constructor", "isDisposed", "increment"}

\* what a receiver's isDisposed() may answer: the boolean flags and other values
Flags == {Bool(TRUE), Bool(FALSE), Str("yes"), Num(0), Undefined}

CounterOk(st) ==
    \A i \in 1..Len(st) : st[i].counter.t = "number" => st[i].counter.k <= MaxCounter

\* ---------------------------------------------------------------- state

Last(op, name, fn, this, args, r) ==
    [op |-> op, name |-> name, fn |-> fn, this |-> this, args |-> args,
     out |-> r.out, val |-> r.val, err |-> r.err, trace |-> r.trace]

Init ==
    /\ closures = <<>>
    /\ proto = [n \in ProtoNameSet |-> Fn(n)]
    /\ objs = <<>>
    /\ last = [op |-> "init", name |-> "", fn |-> Undefined, this |-> 0, args |-> <<>>,
               out |-> "return", val |-> Undefined, err |-> NoErr, trace |-> NoTrace]

\* new R(...)
New ==
    /\ Len(objs) < MaxObjs
    /\ objs' = Append(objs, constructor(Blank("R")))
    /\ last' = Last("new", "", Undefined, Len(objs) + 1, <<>>,
                    Return(Undefined, <<>>, NoTrace))
    /\ UNCHANGED <<closures, proto>>

\* an object of another type, with no isDisposed member
NewObject ==
    /\ Len(objs) < MaxObjs
    /\ objs' = Append(objs, Blank("Object"))
    /\ last' = Last("object", "", Undefined, Len(objs) + 1, <<>>,
                    Return(Undefined, <<>>, NoTrace))
    /\ UNCHANGED <<closures, proto>>

\* an instance whose isDisposed() answers flag
NewReceiver ==
    \E flag \in Flags :
        /\ Len(objs) < MaxReceivers
        /\ objs' = Append(objs, [constructor(Blank("R")) EXCEPT !._disposed = flag])
        /\ last' = Last("new", "", Undefined, Len(objs) + 1, <<>>,
                        Return(Undefined, <<>>, NoTrace))
        /\ UNCHANGED <<closures, proto>>

\* guard = create(name, fn), fn one of the plain functions
CreateGuard ==
    \E name \in Names, fn \in Functions :
        LET c == create(name, fn, closures, objs)
        IN  /\ Len(c.heap) <= MaxGuards
            /\ closures' = c.heap
            /\ objs' = c.st
            /\ last' = Last("create", name, fn, 0, <<>>, c)
            /\ UNCHANGED proto

\* guard = create(name, fn), fn a function that disposes its receiver and goes on
CreateNested ==
    \E name \in Names :
        LET c == create(name, Fn("disposeThenClose"), closures, objs)
        IN  /\ Cardinality({k \in 1..Len(c.heap) : c.heap[k] = Fn("disposeThenClose")})
                   <= MaxGuards
            /\ closures' = c.heap
            /\ objs' = c.st
            /\ last' = Last("create", name, Fn("disposeThenClose"), 0, <<>>, c)
            /\ UNCHANGED proto

\* wrapped = create(name, fn)
CallCreate ==
    \E name \in Names, fn \in Candidates :
        LET c == create(name, fn, closures, objs)
        IN  /\ Len(c.heap) <= MaxCreated
            /\ closures' = c.heap
            /\ objs' = c.st
            /\ last' = Last("create", name, fn, 0, <<>>, c)
            /\ UNCHANGED proto

\* R.prototype[name] = create(name, R.prototype[name])
DecorateMethod ==
    \E name \in MethodsToDecorate :
        LET c == create(name, proto[name], closures, objs)
        IN  /\ Len(c.heap) <= MaxClosures
            /\ closures' = c.heap
            /\ objs' = c.st
            /\ proto' = IF c.out = "return" THEN [proto EXCEPT ![name] = c.val] ELSE proto
            /\ last' = Last("decorate", name, proto[name], 0, <<>>, c)

\* applyDisposableDecorator(R)
ApplyDisposableDecorator ==
    LET a == applyDisposableDecorator(ProtoNames, proto, closures, objs)
    IN  /\ Len(a.heap) <= MaxClosures
        /\ closures' = a.heap
        /\ objs' = a.st
        /\ proto' = a.proto
        /\ last' = Last("apply", "", Undefined, 0, <<>>,
                        [out |-> a.out, val |-> Undefined, err |-> a.err, trace |-> NoTrace])

\* wrapped.call(instance, ...args)
CallWrapper ==
    \E k \in 1..Len(closures), this \in 1..Len(objs), args \in ArgLists :
        LET r == Call(Wrapper(k), this, args, objs, NoTrace, 0)
        IN  /\ CounterOk(r.st)
            /\ objs' = r.st
            /\ last' = Last("call", "", Wrapper(k), this, args, r)
            /\ UNCHANGED <<closures, proto>>

\* guard.call(instance), guard made by CreateNested
CallGuard ==
    \E k \in 1..Len(closures), this \in 1..Len(objs) :
        LET r == Call(Wrapper(k), this, <<>>, objs, NoTrace, 0)
        IN  /\ closures[k] = Fn("disposeThenClose")
            /\ objs' = r.st
            /\ last' = Last("call", "", Wrapper(k), this, <<>>, r)
            /\ UNCHANGED <<closures, proto>>

\* instance.name(...args), name among names
CallMethod(names) ==
    \E this \in 1..Len(objs), name \in names :
        \E args \in ParamLists(name) :
            LET f == Lookup(objs, this, name)
                r == IF TypeOf(f) # "function"
                     THEN Throw(NotAFunction(name), objs, NoTrace)
                     ELSE Call(f, this, args, objs, NoTrace, 0)
            IN  /\ CounterOk(r.st)
                /\ objs' = r.st
                /\ last' = Last("method", name, f, this, args, r)
                /\ UNCHANGED <<closures, proto>>

\* create and its wrappers, used directly on instances of the undecorated class
Next ==
    \/ New
    \/ NewObject
    \/ CallCreate
    \/ CallWrapper
    \/ CallMethod({"isDisposed", "dispose"})

Spec == Init /\ [][Next]_vars

\* instances of the class after its prototype's methods are decorated
NextClass ==
    \/ New
    \/ DecorateMethod
    \/ ApplyDisposableDecorator
    \/ CallMethod(ProtoNameSet \ {"constructor"})

SpecClass == Init /\ [][NextClass]_vars

\* guard wrappers called on receivers whose isDisposed() answers any value
NextTruthy ==
    \/ NewReceiver
    \/ CreateGuard
    \/ CallWrapper
    \/ CallMethod({"dispose"})

SpecTruthy == Init /\ [][NextTruthy]_vars

\* methods of the decorated class that call other decorated methods on this
NextNested ==
    \/ New
    \/ ApplyDisposableDecorator
    \/ CreateNested
    \/ CallGuard
    \/ CallMethod({"dispose", "close"})

SpecNested == Init /\ [][NextNested]_vars

\* ---------------------------------------------------------------- claims

\* what this.isDisposed() answers in store st
Predicate(st, this) == CallMember(this, "isDisposed", <<>>, st, NoTrace, 0)

Applies(tr) == {i \in 1..Len(tr) : tr[i].site = "apply"}

\* C1: a guard wrapper invoked on a receiver whose isDisposed() returns true raises
\* TypeError('Object is disposed') and does not invoke the candidate, whatever the
\* candidate, the name it was created under and the arguments.
C1_DisposedReceiverBlocks ==
    [][(/\ last'.op = "call"
        /\ Predicate(objs, last'.this).out = "return"
        /\ Predicate(objs, last'.this).val = Bool(TRUE))
       => (/\ last'.out = "throw"
           /\ last'.err.kind = "TypeError"
           /\ last'.err.msg = "Object is disposed"
           /\ Applies(last'.trace) = {}
           /\ objs' = objs)]_vars

C1_Witness ==
    /\ last.op = "call"
    /\ last.out = "throw"
    /\ last.err = Disposed
    /\ objs[last.this]._disposed = Bool(TRUE)
    /\ closures[last.fn.k] = Fn("query")
    /\ Len(last.args) = 2

\* the invocations of its candidate that the wrapper called in l made itself
Delegations(l) == {i \in 1..Len(l.trace) : l.trace[i].site = "apply" /\ l.trace[i].depth = 1}

Reserved(name) == name = "constructor" \/ name = "isDisposed"

\* C2: a guard wrapper invoked on a receiver whose isDisposed() returns false invokes
\* the candidate exactly once, with that receiver and the same arguments in the same
\* order, and returns the value the candidate returned.
C2_LiveReceiverDelegates ==
    [][(/\ last'.op = "call"
        /\ Predicate(objs, last'.this).out = "return"
        /\ Predicate(objs, last'.this).val = Bool(FALSE))
       => (/\ Cardinality(Delegations(last')) = 1
           /\ \A i \in Delegations(last') :
                  /\ last'.trace[i].fn = closures[last'.fn.k]
                  /\ last'.trace[i].this = last'.this
                  /\ last'.trace[i].args = last'.args
                  /\ last'.trace[i].out = "return"
                        => (last'.out = "return" /\ last'.val = last'.trace[i].val))]_vars

C2_Witness ==
    /\ last.op = "call"
    /\ last.out = "return"
    /\ last.val = Str("results")
    /\ last.args = <<Num(2), Num(1)>>
    /\ last.this = 2
    /\ objs[last.this]._disposed = Bool(FALSE)
    /\ Delegations(last) # {}

\* C3: create(name, fn) returns fn itself exactly when name is 'constructor' or
\* 'isDisposed' or fn is not callable; otherwise it returns a callable other than fn.
C3_PassthroughIffReservedOrNotCallable ==
    last.op = "create" =>
        /\ last.out = "return"
        /\ (last.val = last.fn) <=> (Reserved(last.name) \/ TypeOf(last.fn) # "function")
        /\ ~(Reserved(last.name) \/ TypeOf(last.fn) # "function")
              => (TypeOf(last.val) = "function" /\ last.val # last.fn)

C3_Witness ==
    /\ last.op = "create"
    /\ last.name = "isDisposed"
    /\ TypeOf(last.fn) = "function"
    /\ last.val = last.fn
    /\ Len(closures) = 1

\* C4: with increment installed as a guard wrapper, a call on a live instance adds
\* its argument to the counter and returns the new counter; once the instance is
\* disposed it stays disposed, every call of increment raises
\* TypeError('Object is disposed'), and the counter keeps the value it had.
C4_WrappedIncrementLifecycle ==
    [][proto["increment"].t = "wrapper" =>
        /\ \A i \in 1..Len(objs) :
               objs[i]._disposed = Bool(TRUE)
                   => (objs'[i]._disposed = Bool(TRUE) /\ objs'[i].counter = objs[i].counter)
        /\ (last'.op = "method" /\ last'.name = "increment") =>
               IF objs[last'.this]._disposed = Bool(TRUE)
               THEN last'.out = "throw" /\ last'.err = Disposed
               ELSE /\ last'.out = "return"
                    /\ last'.val = Num(objs[last'.this].counter.k + last'.args[1].k)
                    /\ objs'[last'.this].counter = last'.val]_vars

C4_Witness ==
    /\ last.op = "method"
    /\ last.name = "increment"
    /\ proto["increment"].t = "wrapper"
    /\ last.out = "throw"
    /\ last.err = Disposed
    /\ objs[last.this].counter = Num(2)

\* C5: however the prototype is decorated, its constructor and isDisposed entries
\* stay the original functions, and isDisposed() on any instance, disposed or not,
\* returns the current disposal flag without raising.
C5_ReservedNeverGated ==
    /\ proto["constructor"] = Fn("constructor")
    /\ proto["isDisposed"] = Fn("isDisposed")
    /\ \A i \in 1..Len(objs) :
           /\ Predicate(objs, i).out = "return"
           /\ Predicate(objs, i).val = objs[i]._disposed
    /\ (last.op = "method" /\ last.name = "isDisposed")
           => (last.out = "return" /\ last.val = objs[last.this]._disposed)

C5_Witness ==
    /\ last.op = "method"
    /\ last.name = "isDisposed"
    /\ last.val = Bool(TRUE)
    /\ \A n \in {"dispose", "increment", "close"} : proto[n].t = "wrapper"
    /\ Len(objs) = 2

\* C6 as stated: every call of a guard wrapper either succeeds with the candidate
\* invoked and its result returned, or fails with the candidate never invoked.
C6_SucceedsOrFailsBeforeCandidate ==
    last.op = "call" =>
        \/ last.out = "return" /\ Delegations(last) # {}
        \/ last.out = "throw" /\ Applies(last.trace) = {}

\* C6 amended: every call of a guard wrapper either fails with the candidate never
\* invoked, or invokes the candidate once and ends exactly as the candidate ended,
\* with its returned value or with its raised error.
C6_EndsAsCandidateOrFailsBefore ==
    last.op = "call" =>
        \/ /\ last.out = "throw"
           /\ Applies(last.trace) = {}
           /\ last.err \in {Disposed, NotAFunction("isDisposed")}
        \/ /\ Cardinality(Delegations(last)) = 1
           /\ \A i \in Delegations(last) :
                  /\ last.out = last.trace[i].out
                  /\ last.val = last.trace[i].val
                  /\ last.err = last.trace[i].err

C6_Witness ==
    /\ last.op = "call"
    /\ last.out = "throw"
    /\ last.err.kind = "Error"
    /\ Delegations(last) # {}
    /\ closures[last.fn.k] = Fn("readFile")

\* C7: when the candidate a guard wrapper delegates to raises an error, the wrapper
\* raises that same error: not a normal return, not 'Object is disposed'.
C7_CandidateErrorPropagates ==
    last.op = "call" =>
        \A i \in Delegations(last) :
            last.trace[i].out = "throw"
                => /\ last.out = "throw"
                   /\ last.err = last.trace[i].err
                   /\ last.err # Disposed

C7_Witness ==
    /\ last.op = "call"
    /\ last.out = "throw"
    /\ last.err = FileNotOpen(Num(2))
    /\ objs[last.this]._disposed = Bool(FALSE)
    /\ \E i \in Delegations(last) : last.trace[i].out = "throw"

\* C8: a guard wrapper invoked on a receiver with no callable isDisposed member fails
\* with the host's 'is not a function' TypeError, not with 'Object is disposed', and
\* the candidate is not invoked.
C8_MissingPredicateFails ==
    [][(/\ last'.op = "call"
        /\ TypeOf(Lookup(objs, last'.this, "isDisposed")) # "function")
       => (/\ last'.out = "throw"
           /\ last'.err = NotAFunction("isDisposed")
           /\ last'.err.msg # TEMPLATE
           /\ last'.trace = NoTrace
           /\ objs' = objs)]_vars

C8_Witness ==
    /\ last.op = "call"
    /\ objs[last.this].cls = "Object"
    /\ last.out = "throw"
    /\ last.err.msg = "is not a function"
    /\ closures[last.fn.k] = Fn("query")

\* both wrappers end every call the same way, on every receiver and argument list
SameOutcome(j, k) ==
    \A this \in 1..Len(objs), args \in ArgLists :
        Call(Wrapper(j), this, args, objs, NoTrace, 0)
            = Call(Wrapper(k), this, args, objs, NoTrace, 0)

\* C9: each create with a non-reserved name and a callable fn returns a new wrapper,
\* distinct from fn and from every wrapper made before (so two calls on the same fn
\* give two wrappers), any two wrappers of the same fn end every call the same way,
\* and create under the name 'isDisposed' returns the original value each time.
C9_DistinctWrappersSameEffect ==
    /\ [][last'.op = "create" =>
            /\ last'.name = "isDisposed" => (last'.val = last'.fn /\ closures' = closures)
            /\ (~Reserved(last'.name) /\ TypeOf(last'.fn) = "function") =>
                   /\ last'.val.t = "wrapper"
                   /\ last'.val # last'.fn
                   /\ \A k \in 1..Len(closures) : last'.val # Wrapper(k)
                   /\ closures' = Append(closures, last'.fn)]_vars
    /\ [](\A j, k \in 1..Len(closures) :
              (j # k /\ closures[j] = closures[k]) => SameOutcome(j, k))

C9_Witness ==
    /\ Len(closures) = 2
    /\ closures[1] = Fn("query")
    /\ closures[2] = Fn("query")
    /\ last.op = "call"
    /\ last.fn = Wrapper(2)
    /\ last.out = "return"
    /\ \E i \in 1..Len(objs) : objs[i]._disposed = Bool(TRUE)

\* C10: create returns without raising for every name and candidate, changes no
\* object and no prototype entry, invokes nothing, and never raises
\* 'Object is disposed'.
C10_CreateTotalEffectFree ==
    /\ [](\A name \in Names, fn \in Candidates :
              LET c == create(name, fn, closures, objs)
              IN  /\ c.out = "return"
                  /\ c.err = NoErr
                  /\ c.st = objs
                  /\ c.trace = NoTrace)
    /\ [][last'.op = "create" =>
            /\ last'.out = "return"
            /\ last'.err # Disposed
            /\ last'.trace = NoTrace
            /\ objs' = objs
            /\ proto' = proto]_vars

C10_Witness ==
    /\ last.op = "create"
    /\ last.name = "label"
    /\ last.fn = Undefined
    /\ last.val = Undefined
    /\ \E i \in 1..Len(objs) : objs[i]._disposed = Bool(TRUE)

\* the calls of this.isDisposed() that the wrapper called in l made itself
Checks(l) ==
    {i \in 1..Len(l.trace) : l.trace[i].site = "isDisposed" /\ l.trace[i].depth = 1}

\* C11: every invocation of a guard wrapper calls the receiver's isDisposed() exactly
\* once, with no arguments and before any invocation of the candidate; a truthy
\* answer blocks and a falsy answer delegates, whatever the earlier calls were, so
\* receivers whose answers have the same truthiness get the same outcome.
C11_ChecksOnceByTruthiness ==
    /\ [][(last'.op = "call" /\ Predicate(objs, last'.this).out = "return") =>
            LET p == Predicate(objs, last'.this)
            IN  /\ Cardinality(Checks(last')) = 1
                /\ \A i \in Checks(last') :
                       /\ last'.trace[i].this = last'.this
                       /\ last'.trace[i].args = <<>>
                       /\ last'.trace[i].val = p.val
                       /\ \A j \in Applies(last'.trace) : i < j
                /\ IF Truthy(p.val)
                   THEN /\ last'.out = "throw"
                        /\ last'.err = Disposed
                        /\ Applies(last'.trace) = {}
                   ELSE /\ Cardinality(Delegations(last')) = 1
                        /\ \A j \in Delegations(last') :
                               /\ last'.out = last'.trace[j].out
                               /\ last'.val = last'.trace[j].val]_vars
    /\ [](\A k \in 1..Len(closures), a \in 1..Len(objs), args \in ArgLists :
           \A b \in (a + 1)..Len(objs) :
              LET pa == Predicate(objs, a)
                  pb == Predicate(objs, b)
                  ra == Call(Wrapper(k), a, args, objs, NoTrace, 0)
                  rb == Call(Wrapper(k), b, args, objs, NoTrace, 0)
              IN  (pa.out = "return" /\ pb.out = "return" /\ Truthy(pa.val) = Truthy(pb.val))
                      => (ra.out = rb.out /\ ra.val = rb.val /\ ra.err = rb.err))

C11_Witness ==
    /\ last.op = "call"
    /\ last.out = "throw"
    /\ last.err = Disposed
    /\ objs[last.this]._disposed = Str("yes")
    /\ Cardinality(Checks(last)) = 1
    /\ \E b \in 1..Len(objs) : objs[b]._disposed = Num(0)

\* C12: a guard wrapper installed once on the shared prototype decides per receiver:
\* a wrapped call on a disposed instance raises, a wrapped call on a live instance
\* delegates to the original method with that instance as receiver whichever other
\* instances are disposed, and no call on one instance changes another instance
\* (its isDisposed() stays false).
C12_DecidesPerReceiver ==
    [][(last'.op = "method" /\ last'.fn.t = "wrapper") =>
          LET a == last'.this
          IN  /\ \A b \in (1..Len(objs)) \ {a} :
                     /\ objs'[b] = objs[b]
                     /\ Predicate(objs', b).val = Predicate(objs, b).val
              /\ \A i \in 1..Len(last'.trace) : last'.trace[i].this = a
              /\ IF objs[a]._disposed = Bool(TRUE)
                 THEN /\ last'.out = "throw"
                      /\ last'.err = Disposed
                      /\ Applies(last'.trace) = {}
                 ELSE /\ Cardinality(Delegations(last')) = 1
                      /\ \A j \in Delegations(last') :
                             /\ last'.trace[j].fn = closures[last'.fn.k]
                             /\ last'.trace[j].this = a
                      /\ last'.out = "return"]_vars

C12_Witness ==
    /\ Len(objs) = 2
    /\ objs[1]._disposed = Bool(TRUE)
    /\ objs[2]._disposed = Bool(FALSE)
    /\ last.op = "method"
    /\ last.name = "increment"
    /\ last.fn.t = "wrapper"
    /\ last.this = 2
    /\ last.out = "return"
    /\ objs[1].counter = Num(1)
    /\ objs[2].counter = Num(2)

\* every method of the prototype but the reserved ones is a guard wrapper
AllDecorated == \A n \in ProtoNameSet : ~Reserved(n) => proto[n].t = "wrapper"

\* C13: once applyDisposableDecorator has decorated the prototype, dispose is itself a
\* guard wrapper of the original dispose: dispose() on a live instance runs and sets
\* the disposal flag, and every later dispose() or close() on that instance raises
\* TypeError('Object is disposed') and changes nothing, where the original dispose
\* body would return silently.
C13_DecoratedDisposeRaisesAfterFirst ==
    /\ [](last.op = "apply" =>
              /\ AllDecorated
              /\ closures[proto["dispose"].k] = Fn("dispose"))
    /\ [](proto["close"].t = "wrapper" => AllDecorated)
    /\ [][(AllDecorated /\ last'.op = "method" /\ last'.name \in {"dispose", "close"}) =>
            IF objs[last'.this]._disposed = Bool(FALSE)
            THEN /\ last'.out = "return"
                 /\ objs'[last'.this]._disposed = Bool(TRUE)
            ELSE /\ last'.out = "throw"
                 /\ last'.err = Disposed
                 /\ objs' = objs
                 /\ dispose(last'.this, objs, NoTrace) = Return(Undefined, objs, NoTrace)]_vars

C13_Witness ==
    /\ AllDecorated
    /\ last.op = "method"
    /\ last.name = "dispose"
    /\ last.out = "throw"
    /\ last.err = Disposed
    /\ objs[last.this]._disposed = Bool(TRUE)
    /\ Applies(last.trace) = {}

\* the calls of member that the body run by the wrapper called in l made
Nested(l, member) ==
    {i \in 1..Len(l.trace) : l.trace[i].site = member /\ l.trace[i].depth = 2}

\* C14: the disposal check is made only on entry to a wrapped call. With every method
\* decorated, close() on a live instance, whose body calls the decorated dispose(),
\* returns normally and leaves the instance disposed, every check in it having
\* answered false; a wrapped method that goes on to call another wrapped method on
\* the same receiver once the flag is set gets TypeError('Object is disposed') from
\* the nested call, and that error is the outcome of the outer call.
C14_CheckedOnEntryOnly ==
    /\ [][(/\ AllDecorated
            /\ last'.op = "method"
            /\ last'.name = "close"
            /\ objs[last'.this]._disposed = Bool(FALSE))
           => (/\ last'.out = "return"
               /\ objs'[last'.this]._disposed = Bool(TRUE)
               /\ \E i \in Nested(last', "dispose") :
                      /\ last'.trace[i].fn.t = "wrapper"
                      /\ last'.trace[i].out = "return"
               /\ \A i \in 1..Len(last'.trace) :
                      last'.trace[i].site = "isDisposed"
                          => last'.trace[i].val = Bool(FALSE))]_vars
    /\ [][(/\ AllDecorated
            /\ last'.op = "call"
            /\ closures[last'.fn.k] = Fn("disposeThenClose")
            /\ objs[last'.this]._disposed = Bool(FALSE))
           => (/\ \E i \in Nested(last', "dispose") : last'.trace[i].out = "return"
               /\ \E i \in Nested(last', "close") :
                      /\ last'.trace[i].fn.t = "wrapper"
                      /\ last'.trace[i].this = last'.this
                      /\ last'.trace[i].out = "throw"
                      /\ last'.trace[i].err = Disposed
               /\ \A j \in Delegations(last') :
                      /\ last'.trace[j].out = "throw"
                      /\ last'.trace[j].err = Disposed
               /\ last'.out = "throw"
               /\ last'.err = Disposed
               /\ objs'[last'.this]._disposed = Bool(TRUE))]_vars

C14_Witness ==
    /\ AllDecorated
    /\ last.op = "call"
    /\ closures[last.fn.k] = Fn("disposeThenClose")
    /\ last.out = "throw"
    /\ last.err = Disposed
    /\ Nested(last, "close") # {}
    /\ Delegations(last) # {}
    /\ objs[last.this]._disposed = Bool(TRUE)

====
